---- MODULE Spec2Model ----
(***************************************************************************)
(* Model of src/src/zeff/zeff.py: orbitals, slater, clementi and           *)
(* elem_data over one snapshot of the external periodic-table data.        *)
(*                                                                         *)
(* Python floats are modelled as exact rationals <<num, den>> in lowest    *)
(* terms, plus the value NaN; the results below are therefore the exact    *)
(* values the floating-point results approximate.                          *)
(***************************************************************************)
EXTENDS Integers, Sequences, FiniteSets, TLC

VARIABLES db, op, arg, outcome, result, ext_calls, earlier, frames

vars == <<db, op, arg, outcome, result, ext_calls, earlier, frames>>

(* ------------------------------ bounds --------------------------------- *)

\* Longest electron configuration (number of (n, l) keys) explored.
MaxOrb == 3

(* --------------------------- number model ------------------------------ *)

RECURSIVE GCD(_, _)
GCD(a, b) == IF b = 0 THEN a ELSE GCD(b, a % b)

Abs(a) == IF a < 0 THEN -a ELSE a

NaN == <<0, 0>>

IsNaN(x) == x[2] = 0

Rat(num, den) ==
    LET g == GCD(Abs(num), Abs(den))
        sgn == IF den < 0 THEN -1 ELSE 1
    IN  <<sgn * (num \div g), sgn * (den \div g)>>

FromInt(i) == <<i, 1>>

RSub(x, y) == IF IsNaN(x) \/ IsNaN(y) THEN NaN
              ELSE Rat(x[1] * y[2] - y[1] * x[2], x[2] * y[2])

RMul(x, y) == IF IsNaN(x) \/ IsNaN(y) THEN NaN
              ELSE Rat(x[1] * y[1], x[2] * y[2])

RDiv(x, y) == IF IsNaN(x) \/ IsNaN(y) THEN NaN
              ELSE Rat(x[1] * y[2], x[2] * y[1])

(* ----------------------- external collaborator ------------------------- *)

Letters == {"s", "p", "d", "f", "g", "h"}

PrincipalNumbers == {1, 2}

Keys == PrincipalNumbers \X Letters

AtomicNumbers == {7, 86, 87}

ElementName(z) == CASE z = 7 -> "Nitrogen" [] z = 86 -> "Radon" [] OTHER -> "Francium"

ElementSymbol(z) == CASE z = 7 -> "N" [] z = 86 -> "Rn" [] OTHER -> "Fr"

UnknownIdentifiers == {"Uo"}

\* The identifiers a caller passes: the element's name, its symbol, an unknown one.
Identifiers(d) ==
    {ElementName(d.atomic_number), ElementSymbol(d.atomic_number)} \cup UnknownIdentifiers

\* elem.ec.conf: an ordered mapping, so its keys are pairwise distinct.
Configurations ==
    UNION {{c \in [1..k -> Keys] : \A i, j \in 1..k : i # j => c[i] # c[j]} : k \in 1..MaxOrb}

Snapshots ==
    [atomic_number : AtomicNumbers, conf : Configurations]

LetterIndex(l) ==
    CASE l = "s" -> 0 [] l = "p" -> 1 [] l = "d" -> 2 [] l = "f" -> 3 [] l = "g" -> 4 [] OTHER -> 5

\* mendeleev.element(name): the element record, or NoResultFound.
element(d, name) ==
    [found |-> name \in {ElementName(d.atomic_number), ElementSymbol(d.atomic_number)},
     elem  |-> d]

\* elem.ec.slater_screening(n, l): within one snapshot a fixed real per
\* (element, n, l); this table gives every key of an element its own value.
slater_screening(e, n, l) ==
    Rat(e.atomic_number * (6 * (n - 1) + LetterIndex(l)), 64)

\* elem.zeff(n, l, method="clementi"): likewise a fixed real per (element, n, l).
zeff_clementi(e, n, l) ==
    Rat(e.atomic_number * (50 - 6 * (n - 1) - LetterIndex(l)), 50)

(* ------------------------------ orbitals ------------------------------- *)

NoResult == "NoResult"

Digit(k) == CASE k = 0 -> "0" [] k = 1 -> "1" [] k = 2 -> "2" [] k = 3 -> "3"
              [] k = 4 -> "4" [] k = 5 -> "5" [] k = 6 -> "6" [] k = 7 -> "7"
              [] k = 8 -> "8" [] OTHER -> "9"

RECURSIVE IntToStr(_)
IntToStr(k) == IF k < 10 THEN Digit(k) ELSE IntToStr(k \div 10) \o Digit(k % 10)

\* Mutant of fmt_label: the letter before the number.
fmt_label_swapped(n, l) == l \o IntToStr(n)

\* f"{n}{l}"
fmt_label(n, l) == IntToStr(n) \o l

\* Mutant of dict_l_get: g numbered 4 instead of falling to the default.
dict_l_get_g4(l) ==
    CASE l = "s" -> 0 [] l = "p" -> 1 [] l = "d" -> 2 [] l = "f" -> 3 [] l = "g" -> 4 [] OTHER -> -1

\* Mutant of dict_l_get: f numbered like d.
dict_l_get_f2(l) ==
    CASE l = "s" -> 0 [] l = "p" -> 1 [] l = "d" -> 2 [] l = "f" -> 2 [] OTHER -> -1

\* dict_l.get(l, -1)
dict_l_get(l) ==
    CASE l = "s" -> 0 [] l = "p" -> 1 [] l = "d" -> 2 [] l = "f" -> 3 [] OTHER -> -1

Raise(calls) == [outcome |-> "NoResultFound", value |-> NoResult, calls |-> calls]

Return(value, calls) == [outcome |-> "returned", value |-> value, calls |-> calls]

\* Mutant of orbitals: a failed lookup is swallowed and an empty result returned.
orbitals_swallow(d, name) ==
    LET r == element(d, name)
        conf == IF r.found THEN r.elem.conf ELSE <<>>
        k == Len(conf)
    IN  [outcome |-> "returned",
         value   |-> [orbital                  |-> [i \in 1..k |-> fmt_label(conf[i][1], conf[i][2])],
                      principal_quantum_number |-> [i \in 1..k |-> conf[i][1]],
                      orbital_letter           |-> [i \in 1..k |-> conf[i][2]],
                      azimuthal_quantum_number |-> [i \in 1..k |-> dict_l_get(conf[i][2])]],
         calls   |-> <<"element">>]

orbitals(d, name) ==
    LET r == element(d, name)
        conf == r.elem.conf
        k == Len(conf)
    IN  IF ~r.found THEN Raise(<<"element">>)
        ELSE Return([orbital                  |-> [i \in 1..k |-> fmt_label(conf[i][1], conf[i][2])],
                     principal_quantum_number |-> [i \in 1..k |-> conf[i][1]],
                     orbital_letter           |-> [i \in 1..k |-> conf[i][2]],
                     azimuthal_quantum_number |-> [i \in 1..k |-> dict_l_get(conf[i][2])]],
                    <<"element">>)

(* ------------------------------- slater -------------------------------- *)

Min(a, b) == IF a < b THEN a ELSE b

\* Mutant of zip: the pairs come out last first.
zip_reversed(xs, ys) ==
    LET k == Min(Len(xs), Len(ys)) IN [i \in 1..k |-> <<xs[k + 1 - i], ys[k + 1 - i]>>]

\* zip(principal_quantum_number, orbital_letter): pairs up to the shorter list.
zip(xs, ys) == [i \in 1..Min(Len(xs), Len(ys)) |-> <<xs[i], ys[i]>>]

\* Mutant of percent: the factor 100 is left out.
percent_fraction(values, z) ==
    [i \in 1..Len(values) |-> RDiv(values[i], FromInt(z))]

\* [(i / elem.atomic_number) * 100 for i in values]
percent(values, z) ==
    [i \in 1..Len(values) |-> RMul(RDiv(values[i], FromInt(z)), FromInt(100))]

\* Mutant of slater_row: the subtraction the wrong way round.
slater_row_flipped(e, n, l) ==
    LET screening == slater_screening(e, n, l)
    IN  [screening |-> screening, zeff |-> RSub(screening, FromInt(e.atomic_number))]

\* One pass of slater's loop: the screening appended and the Zeff appended.
slater_row(e, n, l) ==
    LET screening == slater_screening(e, n, l)
    IN  [screening |-> screening, zeff |-> RSub(FromInt(e.atomic_number), screening)]

slater(d, name) ==
    LET orbital_info == orbitals(d, name)
    IN  IF orbital_info.outcome # "returned" THEN Raise(orbital_info.calls)
        ELSE LET elem == element(d, name).elem
                 nl == zip(orbital_info.value.principal_quantum_number,
                           orbital_info.value.orbital_letter)
                 rows == [i \in 1..Len(nl) |-> slater_row(elem, nl[i][1], nl[i][2])]
                 slater_s == [i \in 1..Len(nl) |-> rows[i].screening]
                 zeff_slater == [i \in 1..Len(nl) |-> rows[i].zeff]
             IN  Return([effective_nuclear_charge |-> zeff_slater,
                         screening_values         |-> slater_s,
                         screening_percentage     |-> percent(slater_s, elem.atomic_number)],
                        orbital_info.calls \o <<"element">>
                            \o [i \in 1..Len(nl) |-> "slater_screening"])

(* ------------------------------ clementi ------------------------------- *)

ClementiLimit == 87

\* Mutant of clementi_row: the screening is the looked-up value minus Z.
clementi_row_flipped(e, n, l) ==
    [screening |-> RSub(zeff_clementi(e, n, l), FromInt(e.atomic_number)),
     zeff      |-> zeff_clementi(e, n, l)]

\* One pass of the loop taken when atomic_number < 87; zeff is looked up twice.
clementi_row(e, n, l) ==
    [screening |-> RSub(FromInt(e.atomic_number), zeff_clementi(e, n, l)),
     zeff      |-> zeff_clementi(e, n, l)]

\* One pass of the loop taken otherwise.
clementi_nan_row == [screening |-> NaN, zeff |-> NaN]

\* Mutant of clementi_has_data: the limit itself still takes the lookup.
clementi_has_data_incl(z) == z <= ClementiLimit

\* if elem.atomic_number < 87
clementi_has_data(z) == z < ClementiLimit

clementi(d, name) ==
    LET orbital_info == orbitals(d, name)
    IN  IF orbital_info.outcome # "returned" THEN Raise(orbital_info.calls)
        ELSE LET elem == element(d, name).elem
                 pqn == orbital_info.value.principal_quantum_number
                 nl == zip(pqn, orbital_info.value.orbital_letter)
                 lookup == clementi_has_data(elem.atomic_number)
                 rows == IF lookup
                         THEN [i \in 1..Len(nl) |-> clementi_row(elem, nl[i][1], nl[i][2])]
                         ELSE [i \in 1..Len(pqn) |-> clementi_nan_row]
                 clementi_s == [i \in 1..Len(rows) |-> rows[i].screening]
                 zeff_clem == [i \in 1..Len(rows) |-> rows[i].zeff]
             IN  Return([effective_nuclear_charge |-> zeff_clem,
                         screening_values         |-> clementi_s,
                         screening_percentage     |-> percent(clementi_s, elem.atomic_number)],
                        orbital_info.calls \o <<"element">>
                            \o (IF lookup THEN [i \in 1..(2 * Len(nl)) |-> "zeff"] ELSE <<>>))

(* ------------------------------ elem_data ------------------------------ *)

\* The dict keys handed to pd.DataFrame, in order.
Columns ==
    <<"n", "l", "l_num", "Orbital", "Zef Slater", "S Slater", "% S Slater",
      "Zef Clementi", "S Clementi", "% S Clementi">>

\* pd.DataFrame(dict of equal-length lists): one row per list position, index 0..k-1.
DataFrame(o, s, c) ==
    LET k == Len(o.principal_quantum_number)
    IN  [columns |-> Columns,
         index   |-> [i \in 1..k |-> i - 1],
         rows    |-> [i \in 1..k |->
                        <<o.principal_quantum_number[i], o.orbital_letter[i],
                          o.azimuthal_quantum_number[i], o.orbital[i],
                          s.effective_nuclear_charge[i], s.screening_values[i],
                          s.screening_percentage[i],
                          c.effective_nuclear_charge[i], c.screening_values[i],
                          c.screening_percentage[i]>>]]

\* Position of a column name in the frame's columns.
ColumnOf(df, name) == CHOOSE j \in 1..Len(df.columns) : df.columns[j] = name

\* Lexicographic <= on two integer tuples of the same length.
RECURSIVE LexLeq(_, _)
LexLeq(a, b) ==
    IF a = <<>> THEN TRUE
    ELSE IF a[1] # b[1] THEN a[1] < b[1]
    ELSE LexLeq(Tail(a), Tail(b))

\* Insert position x into the sorted sequence of positions, after every position
\* whose key is <= its own (a stable sort, as pandas uses for several keys).
RECURSIVE InsertStable(_, _, _)
InsertStable(x, sorted, key) ==
    IF sorted = <<>> THEN <<x>>
    ELSE IF LexLeq(key[Head(sorted)], key[x])
         THEN <<Head(sorted)>> \o InsertStable(x, Tail(sorted), key)
         ELSE <<x>> \o sorted

RECURSIVE SortedOrder(_, _)
SortedOrder(k, key) ==
    IF k = 0 THEN <<>> ELSE InsertStable(k, SortedOrder(k - 1, key), key)

\* Mutant of sort_values: only the key columns are permuted, the others stay put.
sort_values_keys_only(df, by) ==
    LET k == Len(df.rows)
        cols == {ColumnOf(df, by[j]) : j \in 1..Len(by)}
        key == [i \in 1..k |-> [j \in 1..Len(by) |-> df.rows[i][ColumnOf(df, by[j])]]]
        order == SortedOrder(k, key)
    IN  [columns |-> df.columns,
         index   |-> [i \in 1..k |-> df.index[order[i]]],
         rows    |-> [i \in 1..k |->
                        [c \in 1..Len(df.columns) |->
                           IF c \in cols THEN df.rows[order[i]][c] ELSE df.rows[i][c]]]]

\* data.sort_values(by=[...]): rows and their index labels permuted together.
sort_values(df, by) ==
    LET k == Len(df.rows)
        key == [i \in 1..k |-> [j \in 1..Len(by) |-> df.rows[i][ColumnOf(df, by[j])]]]
        order == SortedOrder(k, key)
    IN  [columns |-> df.columns,
         index   |-> [i \in 1..k |-> df.index[order[i]]],
         rows    |-> [i \in 1..k |-> df.rows[order[i]]]]

\* .reset_index(drop=True)
reset_index(df) ==
    [columns |-> df.columns,
     index   |-> [i \in 1..Len(df.rows) |-> i - 1],
     rows    |-> df.rows]

\* Mutant of data_org: the sort keys in the other order.
data_org_l_first(data) == reset_index(sort_values(data, <<"l_num", "n">>))

\* data.sort_values(by=["n", "l_num"]).reset_index(drop=True)
data_org(data) == reset_index(sort_values(data, <<"n", "l_num">>))

elem_data(d, name) ==
    LET slater_info == slater(d, name)
    IN  IF slater_info.outcome # "returned" THEN Raise(slater_info.calls)
        ELSE LET clementi_info == clementi(d, name)
                 orbital_info == orbitals(d, name)
                 data == DataFrame(orbital_info.value, slater_info.value, clementi_info.value)
             IN  Return(data_org(data),
                        slater_info.calls \o clementi_info.calls \o orbital_info.calls)

(* ------------------------ legacy module src/zeff.py -------------------- *)

RaiseError(kind, calls) == [outcome |-> kind, value |-> NoResult, calls |-> calls]

LegacyClementiLimit == 87

\* The attributes the function object `orbitals` has; orbital_n is a local
\* variable of its body, not one of them.
FunctionAttributes == {"__name__", "__doc__", "__module__"}

\* orbitals.orbital_n, read in the else branch of the legacy clementi.
legacy_getattr_orbitals(attr) == attr \in FunctionAttributes

\* clementi(name) of src/zeff.py; returns (clementi_s, zeff_clementi, clementi_s_percent).
legacy_clementi(d, name) ==
    LET r == element(d, name)
        elem == r.elem
        k == Len(elem.conf)
    IN  IF ~r.found THEN RaiseError("NoResultFound", <<"element">>)
        ELSE IF elem.atomic_number < LegacyClementiLimit
        THEN LET clementi_s == [i \in 1..k |->
                                  RSub(FromInt(elem.atomic_number),
                                       zeff_clementi(elem, elem.conf[i][1], elem.conf[i][2]))]
                 zeff_clem == [i \in 1..k |->
                                  zeff_clementi(elem, elem.conf[i][1], elem.conf[i][2])]
             IN  Return(<<clementi_s, zeff_clem, percent(clementi_s, elem.atomic_number)>>,
                        <<"element">> \o [i \in 1..(2 * k) |-> "zeff"])
        ELSE IF ~legacy_getattr_orbitals("orbital_n")
        THEN RaiseError("AttributeError", <<"element">>)
        ELSE LET nans == [i \in 1..k |-> NaN]
             IN  Return(<<nans, nans, percent(nans, elem.atomic_number)>>, <<"element">>)

(* ------------------------------- state --------------------------------- *)

\* The caller's copy of what an earlier call gave back; none at the start.
NoEarlier == [op |-> "none", arg |-> "", outcome |-> "none", result |-> NoResult]

Procs == {"slater", "clementi"}

\* The local variables of a call of slater or clementi before its first statement.
NewFrame ==
    [pc |-> "start", orbital_info |-> NoResult, i |-> 1,
     zeff |-> <<>>, s |-> <<>>, percent |-> <<>>, outcome |-> "none", mixed |-> FALSE]

NoCall ==
    /\ op = "none"
    /\ outcome = "none"
    /\ result = NoResult
    /\ ext_calls = <<>>
    /\ earlier = NoEarlier
    /\ frames = [p \in Procs |-> NewFrame]

Idle ==
    /\ arg = ""
    /\ NoCall

Init ==
    /\ db \in Snapshots
    /\ Idle

\* Mutant of Finish: the call uses up the first entry of elem.ec.conf.
Finish_drains(o, name, r) ==
    /\ op' = o
    /\ arg' = name
    /\ outcome' = r.outcome
    /\ result' = r.value
    /\ ext_calls' = r.calls
    /\ db' = [db EXCEPT !.conf = IF Len(@) > 1 THEN Tail(@) ELSE @]
    /\ UNCHANGED <<earlier, frames>>

\* The call ends: its outcome goes to the caller; the external data is only read.
Finish(o, name, r) ==
    /\ op' = o
    /\ arg' = name
    /\ outcome' = r.outcome
    /\ result' = r.value
    /\ ext_calls' = r.calls
    /\ UNCHANGED <<db, earlier, frames>>

CallOrbitals ==
    /\ op = "none"
    /\ \E name \in Identifiers(db) : Finish("orbitals", name, orbitals(db, name))

CallSlater ==
    /\ op = "none"
    /\ \E name \in Identifiers(db) : Finish("slater", name, slater(db, name))

CallClementi ==
    /\ op = "none"
    /\ \E name \in Identifiers(db) : Finish("clementi", name, clementi(db, name))

CallElemData ==
    /\ op = "none"
    /\ \E name \in Identifiers(db) : Finish("elem_data", name, elem_data(db, name))

ReturnToCaller ==
    /\ op # "none"
    /\ op' = "none"
    /\ arg' = ""
    /\ outcome' = "none"
    /\ result' = NoResult
    /\ ext_calls' = <<>>
    /\ UNCHANGED <<db, earlier, frames>>

Next ==
    \/ CallOrbitals
    \/ CallSlater
    \/ CallClementi
    \/ CallElemData
    \/ ReturnToCaller

Spec == Init /\ [][Next]_vars

CallLegacyClementi ==
    /\ op = "none"
    /\ \E name \in Identifiers(db) :
          Finish("legacy_clementi", name, legacy_clementi(db, name))

NextLegacy ==
    \/ CallLegacyClementi
    \/ ReturnToCaller

SpecLegacy == Init /\ [][NextLegacy]_vars

(* --------------------------- repeated calls ---------------------------- *)

RECURSIVE ConfigurationsOver(_, _)
\* The orderings of up to k pairwise distinct keys drawn from keys.
ConfigurationsOver(keys, k) ==
    IF k = 0 THEN {<<>>}
    ELSE LET shorter == ConfigurationsOver(keys, k - 1)
         IN  shorter \cup {Append(c, key) : c \in {c \in shorter : Len(c) = k - 1},
                                            key \in keys}

SmallKeys == {<<1, "s">>, <<2, "s">>, <<2, "p">>, <<2, "g">>}

\* Filling-order and other orders of a few keys, for the runs that remember calls.
SmallSnapshots ==
    [atomic_number : AtomicNumbers,
     conf : {c \in ConfigurationsOver(SmallKeys, MaxOrb) :
                /\ Len(c) >= 1
                /\ \A i, j \in 1..Len(c) : i # j => c[i] # c[j]}]

InitHistory ==
    /\ db \in SmallSnapshots
    /\ Idle

\* The caller keeps what the call gave back and goes on to make further calls.
KeepAndReturn ==
    /\ op # "none"
    /\ earlier' = [op |-> op, arg |-> arg, outcome |-> outcome, result |-> result]
    /\ op' = "none"
    /\ arg' = ""
    /\ outcome' = "none"
    /\ result' = NoResult
    /\ ext_calls' = <<>>
    /\ UNCHANGED <<db, frames>>

NextHistory ==
    \/ CallOrbitals
    \/ CallSlater
    \/ CallClementi
    \/ CallElemData
    \/ ReturnToCaller
    \/ KeepAndReturn

SpecHistory == InitHistory /\ [][NextHistory]_vars

(* ------------------- slater and clementi side by side ------------------ *)

\* slater(arg) and clementi(arg) run as two processes, one statement at a time.
InitConcurrent ==
    /\ db \in SmallSnapshots
    /\ arg \in Identifiers(db)
    /\ NoCall

Other(p) == IF p = "slater" THEN "clementi" ELSE "slater"

\* Process p takes the step that turns frames into fr; mixed records that the
\* other process was between its first and its last statement at that moment.
Step(p, fr) ==
    /\ frames' = [fr EXCEPT ![p].mixed = @ \/ frames[Other(p)].pc \notin {"start", "done"}]
    /\ UNCHANGED <<db, op, arg, outcome, result, ext_calls, earlier>>

\* orbital_info = orbitals(name), first statement of both functions.
CallOrbitalsIn(p, fr) ==
    LET o == orbitals(db, arg)
    IN  IF o.outcome # "returned"
        THEN [fr EXCEPT ![p].pc = "done", ![p].outcome = o.outcome]
        ELSE [fr EXCEPT ![p].pc = "element", ![p].orbital_info = o.value]

\* elem = element(name); the empty lists are created.
LookupElementIn(p, fr) ==
    [fr EXCEPT ![p].pc = "loop", ![p].i = 1, ![p].zeff = <<>>, ![p].s = <<>>]

\* The (n, l) pairs the loop of p runs over.
LoopItems(f) ==
    zip(f.orbital_info.principal_quantum_number, f.orbital_info.orbital_letter)

\* Mutant of SlaterAppend: the two lists are shared with clementi.
SlaterAppend_shared(fr, row) ==
    [fr EXCEPT !["slater"].s = Append(@, row.screening),
               !["slater"].zeff = Append(@, row.zeff),
               !["slater"].i = @ + 1,
               !["clementi"].s = Append(@, row.screening),
               !["clementi"].zeff = Append(@, row.zeff)]

\* slater_s.append(screening); zeff_slater.append(...): slater's own lists.
SlaterAppend(fr, row) ==
    [fr EXCEPT !["slater"].s = Append(@, row.screening),
               !["slater"].zeff = Append(@, row.zeff),
               !["slater"].i = @ + 1]

\* clementi_s.append(...); zeff_clementi.append(...): clementi's own lists.
ClementiAppend(fr, row) ==
    [fr EXCEPT !["clementi"].s = Append(@, row.screening),
               !["clementi"].zeff = Append(@, row.zeff),
               !["clementi"].i = @ + 1]

\* The percentage list is built and the NamedTuple returned.
ReturnIn(p, fr) ==
    [fr EXCEPT ![p].percent = percent(fr[p].s, db.atomic_number),
               ![p].pc = "done", ![p].outcome = "returned"]

SlaterOrbitals ==
    /\ frames["slater"].pc = "start"
    /\ Step("slater", CallOrbitalsIn("slater", frames))

SlaterElement ==
    /\ frames["slater"].pc = "element"
    /\ Step("slater", LookupElementIn("slater", frames))

SlaterLoop ==
    LET f == frames["slater"]
    IN  /\ f.pc = "loop"
        /\ f.i <= Len(LoopItems(f))
        /\ Step("slater",
                SlaterAppend(frames, slater_row(db, LoopItems(f)[f.i][1], LoopItems(f)[f.i][2])))

SlaterReturn ==
    LET f == frames["slater"]
    IN  /\ f.pc = "loop"
        /\ f.i > Len(LoopItems(f))
        /\ Step("slater", ReturnIn("slater", frames))

ClementiOrbitals ==
    /\ frames["clementi"].pc = "start"
    /\ Step("clementi", CallOrbitalsIn("clementi", frames))

ClementiElement ==
    /\ frames["clementi"].pc = "element"
    /\ Step("clementi", LookupElementIn("clementi", frames))

ClementiLoop ==
    LET f == frames["clementi"]
    IN  /\ f.pc = "loop"
        /\ clementi_has_data(db.atomic_number)
        /\ f.i <= Len(LoopItems(f))
        /\ Step("clementi",
                ClementiAppend(frames,
                               clementi_row(db, LoopItems(f)[f.i][1], LoopItems(f)[f.i][2])))

ClementiNaNLoop ==
    LET f == frames["clementi"]
    IN  /\ f.pc = "loop"
        /\ ~clementi_has_data(db.atomic_number)
        /\ f.i <= Len(f.orbital_info.principal_quantum_number)
        /\ Step("clementi", ClementiAppend(frames, clementi_nan_row))

ClementiReturn ==
    LET f == frames["clementi"]
    IN  /\ f.pc = "loop"
        /\ f.i > (IF clementi_has_data(db.atomic_number)
                  THEN Len(LoopItems(f))
                  ELSE Len(f.orbital_info.principal_quantum_number))
        /\ Step("clementi", ReturnIn("clementi", frames))

NextConcurrent ==
    \/ SlaterOrbitals
    \/ SlaterElement
    \/ SlaterLoop
    \/ SlaterReturn
    \/ ClementiOrbitals
    \/ ClementiElement
    \/ ClementiLoop
    \/ ClementiNaNLoop
    \/ ClementiReturn

SpecConcurrent == InitConcurrent /\ [][NextConcurrent]_vars

(* ------------------------------ properties ----------------------------- *)

Z == db.atomic_number

K == Len(db.conf)

Resolvable(name) == element(db, name).found

Returned(o) == op = o /\ outcome = "returned"

\* x + y and x == y as Python evaluates them on floats: NaN absorbs the sum and
\* equals nothing, itself included.
RAdd(x, y) == IF IsNaN(x) \/ IsNaN(y) THEN NaN
              ELSE Rat(x[1] * y[2] + y[1] * x[2], x[2] * y[2])

NumEq(x, y) == ~IsNaN(x) /\ ~IsNaN(y) /\ x = y

\* The three lists of a SlaterInfo / ClementiInfo all have length k.
ThreeLists(r, k) ==
    /\ Len(r.effective_nuclear_charge) = k
    /\ Len(r.screening_values) = k
    /\ Len(r.screening_percentage) = k

SumIsZ(r) ==
    /\ ThreeLists(r, K)
    /\ \A i \in 1..K :
          NumEq(RAdd(r.effective_nuclear_charge[i], r.screening_values[i]), FromInt(Z))

\* C1 as stated: in the result of slater(name) and of clementi(name), for every
\* element and every orbital, effective_nuclear_charge[i] + screening_values[i]
\* equals the atomic number.
C1_SumIsAtomicNumber_EveryElement ==
    (Returned("slater") \/ Returned("clementi")) => SumIsZ(result)

\* C1 amended: the sum equals the atomic number in the result of slater(name) for
\* every element, and in the result of clementi(name) for atomic number < 87; for
\* atomic number >= 87 the clementi sum is not-a-number.
C1_SumIsAtomicNumber ==
    /\ (Returned("slater") \/ (Returned("clementi") /\ Z < 87)) => SumIsZ(result)
    /\ (Returned("clementi") /\ Z >= 87) =>
          \A i \in 1..K :
             IsNaN(RAdd(result.effective_nuclear_charge[i], result.screening_values[i]))

C1_Witness ==
    /\ Returned("slater")
    /\ K >= 2
    /\ \E i \in 1..K : result.screening_values[i] # FromInt(0)

\* C2: for a resolvable element with atomic number >= 87, clementi(name) returns
\* normally with one not-a-number entry per orbital in each of its three lists and
\* looks nothing up; with atomic number 86 it takes the table-lookup branch.
C2_ClementiNaNFrom87 ==
    (op = "clementi" /\ Resolvable(arg)) =>
       /\ outcome = "returned"
       /\ ThreeLists(result, K)
       /\ Z >= 87 =>
             /\ \A i \in 1..K : /\ IsNaN(result.effective_nuclear_charge[i])
                                /\ IsNaN(result.screening_values[i])
                                /\ IsNaN(result.screening_percentage[i])
             /\ \A j \in 1..Len(ext_calls) : ext_calls[j] # "zeff"
       /\ Z <= 86 =>
             /\ \A i \in 1..K : /\ ~IsNaN(result.effective_nuclear_charge[i])
                                /\ ~IsNaN(result.screening_values[i])
                                /\ ~IsNaN(result.screening_percentage[i])
             /\ \E j \in 1..Len(ext_calls) : ext_calls[j] = "zeff"

C2_Witness == Returned("clementi") /\ Z = 87 /\ K >= 2

\* C3: for an identifier the external lookup does not resolve, orbitals, slater,
\* clementi and elem_data each end in NoResultFound, with no result and with no
\* call of the external Slater-screening or Clementi-Zeff function made.
C3_UnresolvedRaises ==
    (op # "none" /\ ~Resolvable(arg)) =>
       /\ outcome = "NoResultFound"
       /\ result = NoResult
       /\ \A j \in 1..Len(ext_calls) : ext_calls[j] \notin {"slater_screening", "zeff"}

C3_Witness == op = "elem_data" /\ ~Resolvable(arg) /\ outcome = "NoResultFound"

\* C4: the rows of elem_data(name) are in non-decreasing lexicographic order of
\* (n, l_num), whatever order the configuration iterates in, one row per orbital.
C4_RowsSorted ==
    Returned("elem_data") =>
       /\ Len(result.rows) = K
       /\ \A i, j \in 1..Len(result.rows) :
             i < j => \/ result.rows[i][1] < result.rows[j][1]
                      \/ /\ result.rows[i][1] = result.rows[j][1]
                         /\ result.rows[i][3] <= result.rows[j][3]

C4_Witness ==
    /\ Returned("elem_data")
    /\ K >= 3
    /\ db.conf[1][1] > db.conf[2][1]
    /\ dict_l_get(db.conf[2][2]) > dict_l_get(db.conf[3][2])

\* C5: the column names of elem_data(name), in order, are n, l, l_num, Orbital,
\* Zeff Slater, S Slater, % S Slater, Zeff Clementi, S Clementi, % S Clementi.
C5_ColumnNames ==
    Returned("elem_data") =>
       result.columns = <<"n", "l", "l_num", "Orbital", "Zeff Slater", "S Slater",
                          "% S Slater", "Zeff Clementi", "S Clementi", "% S Clementi">>

\* C6: orbitals(name) emits one entry per (n, l) key of the configuration, in the
\* configuration's own order; the four lists have equal length and orbital[i] is
\* the number n written out followed by the letter l of the i-th key.
C6_OrbitalsFollowConfiguration ==
    Returned("orbitals") =>
       /\ Len(result.orbital) = K
       /\ Len(result.principal_quantum_number) = K
       /\ Len(result.orbital_letter) = K
       /\ Len(result.azimuthal_quantum_number) = K
       /\ \A i \in 1..K :
             /\ result.principal_quantum_number[i] = db.conf[i][1]
             /\ result.orbital_letter[i] = db.conf[i][2]
             /\ result.orbital[i] = ToString(db.conf[i][1]) \o db.conf[i][2]

C6_Witness ==
    /\ Returned("orbitals")
    /\ K >= 3
    /\ db.conf[1][1] > db.conf[2][1]
    /\ result.orbital[1] = "2p"

\* C7: azimuthal_quantum_number[i] is 0, 1, 2, 3 for the letters s, p, d, f and
\* -1 for any other letter; an unrecognized letter is kept in orbital_letter and
\* in the label, raises nothing and leaves the four lists at full length.
C7_AzimuthalNumbers ==
    (op = "orbitals" /\ Resolvable(arg)) =>
       /\ outcome = "returned"
       /\ Len(result.orbital) = K
       /\ Len(result.principal_quantum_number) = K
       /\ Len(result.orbital_letter) = K
       /\ Len(result.azimuthal_quantum_number) = K
       /\ \A i \in 1..K :
             LET l == result.orbital_letter[i]
                 v == result.azimuthal_quantum_number[i]
             IN  /\ l = db.conf[i][2]
                 /\ l = "s" => v = 0
                 /\ l = "p" => v = 1
                 /\ l = "d" => v = 2
                 /\ l = "f" => v = 3
                 /\ l \notin {"s", "p", "d", "f"} =>
                       v = -1 /\ result.orbital[i] = ToString(db.conf[i][1]) \o l

C7_Witness ==
    /\ Returned("orbitals")
    /\ K >= 3
    /\ result.orbital_letter[1] = "g"
    /\ result.azimuthal_quantum_number = <<-1, 2, 3>>

\* C8: slater(name) and clementi(name) each return three lists as long as the
\* lists of orbitals(name), and entry i is the value of the i-th orbital of
\* orbitals(name), in both branches of clementi.
C8_OneEntryPerOrbital ==
    (Returned("slater") \/ Returned("clementi")) =>
       LET o == orbitals(db, arg).value
           k == Len(o.orbital)
       IN  /\ ThreeLists(result, k)
           /\ \A i \in 1..k :
                 LET n == o.principal_quantum_number[i]
                     l == o.orbital_letter[i]
                 IN  /\ op = "slater" =>
                           result.screening_values[i] = slater_screening(db, n, l)
                     /\ (op = "clementi" /\ Z < 87) =>
                           result.effective_nuclear_charge[i] = zeff_clementi(db, n, l)
                     /\ (op = "clementi" /\ Z >= 87) =>
                           IsNaN(result.effective_nuclear_charge[i])

C8_Witness ==
    /\ Returned("clementi")
    /\ Z < 87
    /\ K >= 3
    /\ db.conf[1][1] > db.conf[2][1]

\* C9: slater(name) returns screening_values[i] = S_i, the external Slater
\* screening at (n_i, l_i), effective_nuclear_charge[i] = Z - S_i and
\* screening_percentage[i] = 100 * S_i / Z.
C9_SlaterValues ==
    Returned("slater") =>
       /\ ThreeLists(result, K)
       /\ \A i \in 1..K :
             LET S_i == slater_screening(db, db.conf[i][1], db.conf[i][2])
             IN  /\ result.screening_values[i] = S_i
                 /\ result.effective_nuclear_charge[i] = RSub(FromInt(Z), S_i)
                 /\ result.screening_percentage[i] =
                       RDiv(RMul(FromInt(100), S_i), FromInt(Z))

C9_Witness ==
    /\ Returned("slater")
    /\ Z = 7
    /\ db.conf = <<<<1, "s">>, <<2, "s">>, <<2, "p">>>>
    /\ result.screening_percentage[3] = Rat(700, 64)

\* C10: for atomic number Z < 87, clementi(name) returns
\* effective_nuclear_charge[i] = the external Clementi Zeff at (n_i, l_i),
\* screening_values[i] = Z - effective_nuclear_charge[i] and
\* screening_percentage[i] = 100 * screening_values[i] / Z.
C10_ClementiValues ==
    (Returned("clementi") /\ Z < 87) =>
       /\ ThreeLists(result, K)
       /\ \A i \in 1..K :
             /\ result.effective_nuclear_charge[i] =
                   zeff_clementi(db, db.conf[i][1], db.conf[i][2])
             /\ result.screening_values[i] =
                   RSub(FromInt(Z), result.effective_nuclear_charge[i])
             /\ result.screening_percentage[i] =
                   RDiv(RMul(FromInt(100), result.screening_values[i]), FromInt(Z))

C10_Witness ==
    /\ Returned("clementi")
    /\ Z = 86
    /\ K >= 2
    /\ \E i \in 1..K : result.screening_values[i] # FromInt(0)

\* Position of the key (n, l) in the configuration.
ConfPosition(n, l) == CHOOSE i \in 1..K : db.conf[i] = <<n, l>>

SameSortKey(r1, r2) == r1[1] = r2[1] /\ r1[3] = r2[3]

\* C14 as stated: no two rows of elem_data(name) have the same sort key
\* (n, l_num), also for configurations with letters outside s, p, d, f.
C14_NoTies ==
    Returned("elem_data") =>
       \A i, j \in 1..Len(result.rows) :
          i # j => ~SameSortKey(result.rows[i], result.rows[j])

\* C14 amended: two rows of elem_data(name) have the same sort key (n, l_num)
\* only when both carry a letter outside s, p, d, f (l_num = -1 for both) with the
\* same n; such rows stay in the configuration's order. Rows with a letter among
\* s, p, d, f tie with no other row.
C14_TiesOnlyAmongUnrecognized ==
    Returned("elem_data") =>
       \A i, j \in 1..Len(result.rows) :
          (i < j /\ SameSortKey(result.rows[i], result.rows[j])) =>
             /\ result.rows[i][2] \notin {"s", "p", "d", "f"}
             /\ result.rows[j][2] \notin {"s", "p", "d", "f"}
             /\ result.rows[i][2] # result.rows[j][2]
             /\ result.rows[i][3] = -1
             /\ ConfPosition(result.rows[i][1], result.rows[i][2])
                   < ConfPosition(result.rows[j][1], result.rows[j][2])

C14_Witness ==
    /\ Returned("elem_data")
    /\ K >= 3
    /\ db.conf[1] = <<2, "h">>
    /\ db.conf[2] = <<2, "g">>
    /\ result.rows[Len(result.rows)][2] = "g"
    /\ SameSortKey(result.rows[Len(result.rows) - 1], result.rows[Len(result.rows)])

\* Row i of the index-wise combination of orbitals(name), slater(name) and
\* clementi(name).
CombinedRow(o, s, c, i) ==
    <<o.principal_quantum_number[i], o.orbital_letter[i], o.azimuthal_quantum_number[i],
      o.orbital[i],
      s.effective_nuclear_charge[i], s.screening_values[i], s.screening_percentage[i],
      c.effective_nuclear_charge[i], c.screening_values[i], c.screening_percentage[i]>>

CombinedRows(o, s, c) == [i \in 1..Len(o.orbital) |-> CombinedRow(o, s, c, i)]

\* rows holds every entry of combined exactly once and nothing else.
EachExactlyOnce(rows, combined) ==
    /\ Len(rows) = Len(combined)
    /\ \A i \in 1..Len(combined) :
          Cardinality({j \in 1..Len(rows) : rows[j] = combined[i]}) = 1

\* C16: every row of elem_data(name) carries the orbital fields, the three Slater
\* fields and the three Clementi fields of one and the same orbital; the rows are
\* the index-wise combination of orbitals(name), slater(name) and clementi(name),
\* each exactly once (the combined rows are pairwise distinct, their (n, l)
\* differing), and the row index is 0..k-1 in row order.
C16_WholeRowsPermuted ==
    Returned("elem_data") =>
       /\ EachExactlyOnce(result.rows,
                          CombinedRows(orbitals(db, arg).value, slater(db, arg).value,
                                       clementi(db, arg).value))
       /\ Len(result.rows) = K
       /\ Len(result.index) = K
       /\ \A i \in 1..K : result.index[i] = i - 1

C16_Witness ==
    /\ Returned("elem_data")
    /\ K >= 3
    /\ db.conf[1][1] > db.conf[2][1]
    /\ result.rows[1][4] = fmt_label(db.conf[2][1], db.conf[2][2])
    /\ result.rows[1][6] = slater_screening(db, db.conf[2][1], db.conf[2][2])

\* C15: in the legacy module, clementi(name) for a resolvable element with atomic
\* number >= 87 returns, without raising, three lists holding one not-a-number
\* entry per orbital of the configuration.
C15_LegacyClementiNaN ==
    (op = "legacy_clementi" /\ Resolvable(arg) /\ Z >= 87) =>
       /\ outcome = "returned"
       /\ \A t \in 1..3 :
             /\ Len(result[t]) = K
             /\ \A i \in 1..K : IsNaN(result[t][i])

Alone(p) == IF p = "slater" THEN slater(db, arg) ELSE clementi(db, arg)

\* C13: with slater(name) and clementi(name) run side by side, their statements
\* interleaved in any way, each ends with the outcome and the three lists it
\* gives when run alone.
C13_InterleavingSameResults ==
    \A p \in Procs :
       frames[p].pc = "done" =>
          /\ frames[p].outcome = Alone(p).outcome
          /\ frames[p].outcome = "returned" =>
                [effective_nuclear_charge |-> frames[p].zeff,
                 screening_values         |-> frames[p].s,
                 screening_percentage     |-> frames[p].percent] = Alone(p).value

C13_Witness ==
    /\ K >= 3
    /\ \A p \in Procs :
          /\ frames[p].pc = "done"
          /\ frames[p].outcome = "returned"
          /\ frames[p].mixed
          /\ Len(frames[p].s) = K

====
